---- MODULE Spec2Model ----
(***************************************************************************)
(* The authenticated HTTP client of go-invoice-frontend                    *)
(* (src/src/utils/api.ts, class ApiService) and the callers of it that     *)
(* write the stored tokens (src/src/context/AuthContext.tsx).              *)
(*                                                                         *)
(* The browser runs one task at a time: a task is the arrival of an HTTP   *)
(* response or a call made by the application, and it runs together with   *)
(* all the promise continuations it makes ready.  Each action below is one *)
(* such task.  The backend is not part of the repository: it answers every *)
(* call with any status.                                                   *)
(*                                                                         *)
(* Five specifications share the module: Spec (FairSpec with fairness) is  *)
(* the HTTP client; AuthSpec is AuthProvider (initializeAuth, login,      *)
(* logout) and the protected route, over a client that resolves or        *)
(* rejects; FormSpec is InvoiceForm's items; OrderSpec is the waiter      *)
(* queue alone, with more waiters than Spec has requests; ListSpec is a   *)
(* list page's debounced loading.                                         *)
(***************************************************************************)
EXTENDS Integers, Sequences, FiniteSets, TLC

VARIABLES
    accessToken,    \* localStorage 'access_token'  (NoTok: the key is absent)
    refreshToken,   \* localStorage 'refresh_token' (NoTok: the key is absent)
    isRefreshing,   \* ApiService.isRefreshing
    failedQueue,    \* ApiService.failedQueue: the waiters, in push order
    req,            \* the requests made through this.api, by caller
    redirects,      \* number of assignments window.location.href = '/login'
    burstCalls,     \* history: refresh calls sent since the open refresh window began
    last,           \* history: the task that ran last
    user,           \* AuthProvider's user state (NoUser: null)
    login,          \* the call of AuthProvider.login in progress, and its outcome
    items,          \* InvoiceForm's data.items
    isLoading,      \* AuthProvider's isLoading state
    initAuth,       \* where AuthProvider's initializeAuth is
    route,          \* what ProtectedRoute returned at the last render
    settled,        \* history: the waiters processQueue settled, in the order it did
    completed,      \* history: the waiters whose replay was answered, in that order
    query,          \* a list page's search term, filter and page
    timer,          \* a list page's debounce timeout is pending
    loads,          \* the list requests a list page has sent, in order
    shown           \* the list request whose result the page displays (0: none)

vars == <<accessToken, refreshToken, isRefreshing, failedQueue, req, redirects,
          burstCalls, last, user, login, items, isLoading, initAuth, route,
          settled, completed, query, timer, loads, shown>>

\* What the HTTP client alone owns, what AuthProvider owns, what the form owns.
clientVars == <<isRefreshing, failedQueue, req, redirects, burstCalls, last>>

authVars == <<user, login, isLoading, initAuth, route>>

formVars == <<items>>

orderVars == <<settled, completed>>

listVars == <<query, timer, loads, shown>>

pageVars == <<authVars, formVars, orderVars, listVars>>

-----------------------------------------------------------------------------
(* Bounds *)

MaxReq == 2

Req == 1..MaxReq

\* The form: how many items it holds at most, and the largest quantity typed.
MaxItems == 2

\* The requests that can wait behind one refresh, in the specification of the
\* waiter queue alone.
MaxWaiters == 3

Waiters == 1..MaxWaiters

\* The list requests one visit of a list page sends.
MaxLoads == 3

MaxQty == 3

-----------------------------------------------------------------------------
(* Values *)

NoTok == 0

InitialTokens == {<<NoTok, NoTok>>, <<1, 1>>}

\* The status of an error that has no response: the network failed.
NoResponse == 0

\* What a call ends with: success, 401, any other failure status, or no
\* response at all.
Statuses == {NoResponse, 200, 401, 500}

MeUrl == <<"v1", "protected", "me">>

SignInUrl == <<"v1", "public", "auth", "sign-in">>

SignUpUrl == <<"v1", "public", "auth", "sign-up">>

RefreshTokenUrl == <<"v1", "protected", "auth", "refresh-token">>

GeneratePdfUrl == <<"v1", "public", "invoices", "generate-pdf">>

NoErr == [src |-> "none", status |-> 0]

RequestError(s) == [src |-> "request", status |-> s]

RefreshError(s) == [src |-> "refresh", status |-> s]

IdleRequest ==
    [pc |-> "idle", url |-> <<>>, chain |-> "none", retry |-> FALSE, auth |-> NoTok,
     replays |-> 0, error |-> NoErr]

\* The task that ran last: the operation, the request it was about, the status
\* of the response it handled and the URL of the request that received it, the
\* access token a refresh returned, the number of waiters it released, and
\* the order in which it did what a successful refresh does.
NoEvent == [op |-> "init", r |-> 0, status |-> 0, url |-> <<>>, tok |-> NoTok, n |-> 0,
            order |-> <<>>]

Event(o, r, s, u, t, n) ==
    [op |-> o, r |-> r, status |-> s, url |-> u, tok |-> t, n |-> n, order |-> <<>>]

NoUser == "null"

SomeUser == "user"

\* What ProtectedRoute returns.
Spinner == "spinner"

ProtectedPage == "page"

NavigateToLogin == "login"

\* A list page's request parameters: the search term or status filter, and the
\* page.  A page starts with no term and page 1.
FirstQuery == [term |-> "", page |-> 1]

SearchTerms == {"", "x"}

ListPages == {1, 2}

\* What a failed call hands to its caller: an axios error without a response
\* (the network failed), or one with the response's status and, in its body,
\* data.can_restore; or the Error AuthProvider.login makes itself.
NoFailure == [kind |-> "none", response |-> FALSE, status |-> 0, can_restore |-> FALSE]

NetworkError == [kind |-> "axios", response |-> FALSE, status |-> 0, can_restore |-> FALSE]

ResponseError(s, c) == [kind |-> "axios", response |-> TRUE, status |-> s, can_restore |-> c]

AccountDeactivated ==
    [kind |-> "ACCOUNT_DEACTIVATED", response |-> FALSE, status |-> 0, can_restore |-> FALSE]

FailureStatuses == {400, 401, 403, 404, 500}

AxiosErrors ==
    {NetworkError} \cup {ResponseError(s, c) : s \in FailureStatuses, c \in BOOLEAN}

\* issued is history: the token the attempt's sign-in call returned and login
\* stored (NoTok while it has stored none).
IdleLogin == [pc |-> "idle", at |-> "none", error |-> NoFailure, thrown |-> NoFailure,
              issued |-> NoTok]

\* An invoice item; edited is history: a handleItemChange call has set the
\* item's quantity or unit_price.  This is the item a new form starts with,
\* and the one addItem appends.
EmptyItem == [description |-> "", quantity |-> 1, unit_price |-> 0, total |-> 0,
              edited |-> FALSE]

\* Items of a saved invoice, as the backend returns them: the total is the
\* backend's, whatever it is.
LoadedItems ==
    {[description |-> "a", quantity |-> 2, unit_price |-> 1500, total |-> t,
      edited |-> FALSE] : t \in {3000, 2999}}

Descriptions == {"", "a"}

Quantities == 0..MaxQty

UnitPrices == {0, 1500, 2500000}

-----------------------------------------------------------------------------
(* Pure parts of ApiService *)

\* String.prototype.includes on a URL, by path segments.
Includes(url, pat) ==
    \E i \in 1..(Len(url) - Len(pat) + 1) : SubSeq(url, i, i + Len(pat) - 1) = pat

IsAuthEndpoint_SignOnly(url) ==
    \/ Includes(url, <<"auth", "sign-in">>)
    \/ Includes(url, <<"auth", "sign-up">>)

IsAuthEndpoint(url) ==
    \/ Includes(url, <<"auth", "sign-in">>)
    \/ Includes(url, <<"auth", "sign-up">>)
    \/ Includes(url, <<"auth", "refresh-token">>)

\* Line 51: error.response?.status === 401.
IsUnauthorized_AnyFailure(s) == s # 200

IsUnauthorized(s) == s = 401

\* The request interceptor: the stored access token, when there is one,
\* replaces the Authorization header.
RequestInterceptor_KeepHeader(header, stored) == header

RequestInterceptor(header, stored) == IF stored # NoTok THEN stored ELSE header

\* generatePublicInvoice posts with the axios default instance, which has no
\* interceptor: the headers are the ones the call gives, Content-Type only.
BareAxiosHeader_ThroughClient(stored) == RequestInterceptor(NoTok, stored)

BareAxiosHeader(stored) == NoTok

IsAuthenticated == accessToken # NoTok

\* Line 59: the test that sends a 401 behind the refresh in progress.
QueueBehindRefresh_Never == FALSE

QueueBehindRefresh_Always == TRUE

QueueBehindRefresh == isRefreshing

\* Line 72: the value isRefreshing has when the refresh call is dispatched.
FlagAtDispatch_SetAfterAwait == FALSE

FlagAtDispatch == TRUE

\* Line 89: what localStorage 'access_token' holds after a successful refresh.
StoredAfterRefresh_NotStored(old, new) == old

StoredAfterRefresh(old, new) == new

InQueue(q) == \E i \in DOMAIN failedQueue : failedQueue[i] = q

RefreshOutstanding == {q \in Req : req[q].pc = "refreshing"}

\* this.api(originalRequest): the request goes out again.
Replay(rec, header, stored) ==
    [rec EXCEPT !.pc = "sent", !.auth = RequestInterceptor(header, stored),
                !.replays = @ + 1]

\* Line 51: the request carries the _retry mark of line 71.
AlreadyRetried_Ignored(rec) == FALSE

AlreadyRetried(rec) == rec.retry

\* A request that is over keeps its outcome only.
Rejected_Swallowed(rec, err) == [IdleRequest EXCEPT !.pc = "resolved"]

Rejected(rec, err) == [IdleRequest EXCEPT !.pc = "rejected", !.error = err]

Resolved(rec) == [IdleRequest EXCEPT !.pc = "resolved"]

\* A waiter's promise settled by processQueue: rejected with the error, or
\* resolved, and then its continuation (lines 63-66) replays the request
\* with the stored access token.
SettleWaiter_IgnoreError(rec, err, stored) == Replay(rec, stored, stored)

SettleWaiter(rec, err, stored) ==
    IF err # NoErr THEN Rejected(rec, err) ELSE Replay(rec, stored, stored)

\* processQueue: every waiter of the queue is settled; the others are left alone.
ProcessQueue_HeadOnly(queue, reqs, err, stored) ==
    [q \in Req |->
        IF queue # <<>> /\ q = Head(queue)
        THEN SettleWaiter(reqs[q], err, stored) ELSE reqs[q]]

ProcessQueue(queue, reqs, err, stored) ==
    [q \in Req |->
        IF \E i \in DOMAIN queue : queue[i] = q
        THEN SettleWaiter(reqs[q], err, stored) ELSE reqs[q]]

\* Lines 89-96 and 104, then the continuations of the waiters (lines 63-65),
\* which run once the handler has returned: what the handler of a successful
\* refresh does, in program order.
RefreshSuccessOrder_ReplayFirst ==
    <<"processQueue", "replayOriginal", "setItem", "finally", "replayWaiters">>

RefreshSuccessOrder ==
    <<"setItem", "processQueue", "replayOriginal", "finally", "replayWaiters">>

\* Line 127: what processQueue leaves in failedQueue.
DrainedQueue_Kept(queue) == queue

DrainedQueue(queue) == <<>>

\* ApiService.logout
logout_AccessOnly ==
    /\ accessToken' = NoTok
    /\ refreshToken' = refreshToken

logout_RefreshOnly ==
    /\ accessToken' = accessToken
    /\ refreshToken' = NoTok

logout ==
    /\ accessToken' = NoTok
    /\ refreshToken' = NoTok

\* window.location.href = '/login'
RedirectToLogin_Missing == redirects' = redirects

RedirectToLogin == redirects' = redirects + 1

-----------------------------------------------------------------------------
Init ==
    /\ \E t \in InitialTokens : accessToken = t[1] /\ refreshToken = t[2]
    /\ isRefreshing = FALSE
    /\ failedQueue = <<>>
    /\ req = [q \in Req |-> IdleRequest]
    /\ redirects = 0
    /\ burstCalls = 0
    /\ last = NoEvent
    /\ user = NoUser
    /\ login = IdleLogin
    /\ items = <<EmptyItem>>
    /\ isLoading = TRUE
    /\ initAuth = "start"
    /\ route = Spinner
    /\ settled = <<>>
    /\ completed = <<>>
    /\ query = FirstQuery
    /\ timer = TRUE
    /\ loads = <<>>
    /\ shown = 0

\* Tokens are opaque strings: the backend hands out one that is in use nowhere.
TokensInUse == {accessToken, refreshToken} \cup {req[q].auth : q \in Req}

FreshToken == CHOOSE t \in 1..(MaxReq + 3) :
                 t \notin TokensInUse /\ \A u \in 1..(t - 1) : u \in TokensInUse

\* Callers are numbered in the order of their first request.
NextCaller(r) == req[r].pc = "idle" /\ \A q \in Req : q < r => req[q].pc # "idle"

NewRequest(url, chain) ==
    [pc |-> "sent", url |-> url, chain |-> chain, retry |-> FALSE,
     auth |-> RequestInterceptor(NoTok, accessToken),
     replays |-> 0, error |-> NoErr]

Send(r, url, chain) ==
    /\ NextCaller(r)
    /\ req' = [req EXCEPT ![r] = NewRequest(url, chain)]
    /\ last' = Event("send", r, 0, <<>>, NoTok, 0)
    /\ UNCHANGED <<accessToken, refreshToken, isRefreshing, failedQueue, redirects,
                   burstCalls>>
    /\ UNCHANGED pageVars

\* ApiService.getCurrentUser
GetCurrentUser(r) == Send(r, MeUrl, "none")

\* ApiService.refreshToken
RefreshTokenCall(r) == Send(r, RefreshTokenUrl, "none")

\* AuthProvider.login, up to its first await: ApiService.login
Login(r) == Send(r, SignInUrl, "login")

\* AuthProvider.register, up to its first await: ApiService.register
Register(r) == Send(r, SignUpUrl, "register")

\* ApiService.logout, called by the application
Logout ==
    /\ logout
    /\ last' = Event("logout", 0, 0, <<>>, NoTok, 0)
    /\ UNCHANGED <<isRefreshing, failedQueue, req, redirects, burstCalls>>
    /\ UNCHANGED pageVars

\* ApiService.generatePublicInvoice, up to its await
GeneratePublicInvoice(r) ==
    /\ NextCaller(r)
    /\ req' = [req EXCEPT ![r] =
                 [NewRequest(GeneratePdfUrl, "public") EXCEPT
                     !.auth = BareAxiosHeader(accessToken)]]
    /\ last' = Event("generatePublicInvoice", r, 0, GeneratePdfUrl, NoTok, 0)
    /\ UNCHANGED <<accessToken, refreshToken, isRefreshing, failedQueue, redirects,
                   burstCalls>>
    /\ UNCHANGED pageVars

\* The answer to generatePublicInvoice: no interceptor sees it; the caller has
\* the blob, or the error.
PublicResponds(r, s) ==
    /\ req[r].pc = "sent"
    /\ req[r].chain = "public"
    /\ req' = [req EXCEPT ![r] =
                 IF s = 200 THEN Resolved(@) ELSE Rejected(@, RequestError(s))]
    /\ last' = Event("publicResponse", r, s, req[r].url, NoTok, 0)
    /\ UNCHANGED <<accessToken, refreshToken, isRefreshing, failedQueue, redirects,
                   burstCalls>>
    /\ UNCHANGED pageVars

\* A request sent with this.api, whose responses the interceptors see.
SentThroughClient(r) == req[r].pc = "sent" /\ req[r].chain # "public"

\* A 2xx response: the response interceptor passes it on and the caller goes on.
\*   AuthProvider.register goes on to login, which sends the sign-in request;
\*   AuthProvider.login stores both tokens of the answer and calls getCurrentUser;
\*   any other caller has its result.
RespondOk(r) ==
    /\ SentThroughClient(r)
    /\ last' = Event("response", r, 200, req[r].url, NoTok, 0)
    /\ IF req[r].chain = "register" /\ req[r].url = SignUpUrl
       THEN /\ req' = [req EXCEPT ![r] = NewRequest(SignInUrl, "login")]
            /\ UNCHANGED <<accessToken, refreshToken>>
       ELSE IF req[r].chain = "login" /\ req[r].url = SignInUrl
       THEN /\ accessToken' = FreshToken
            /\ refreshToken' = FreshToken
            /\ req' = [req EXCEPT ![r] =
                         [NewRequest(MeUrl, "login") EXCEPT
                             !.auth = RequestInterceptor(NoTok, FreshToken)]]
       ELSE /\ req' = [req EXCEPT ![r] = Resolved(@)]
            /\ UNCHANGED <<accessToken, refreshToken>>
    /\ UNCHANGED <<isRefreshing, failedQueue, redirects, burstCalls>>
    /\ UNCHANGED pageVars

\* An error that the response interceptor hands to the caller unchanged:
\* no 401, or a request already retried, or an authentication endpoint.
RespondRejected(r, s) ==
    /\ SentThroughClient(r)
    /\ s # 200
    /\ \/ ~IsUnauthorized(s)
       \/ AlreadyRetried(req[r])
       \/ IsAuthEndpoint(req[r].url)
    /\ req' = [req EXCEPT ![r] = Rejected(@, RequestError(s))]
    /\ last' = Event("response", r, s, req[r].url, NoTok, 0)
    /\ UNCHANGED <<accessToken, refreshToken, isRefreshing, failedQueue, redirects,
                   burstCalls>>
    /\ UNCHANGED pageVars

\* A 401 while a refresh is in progress: the request waits in failedQueue.
Respond401Queued(r) ==
    /\ SentThroughClient(r)
    /\ ~AlreadyRetried(req[r])
    /\ ~IsAuthEndpoint(req[r].url)
    /\ QueueBehindRefresh
    /\ failedQueue' = Append(failedQueue, r)
    /\ req' = [req EXCEPT ![r].pc = "queued"]
    /\ \E s \in Statuses \ {200} :
          /\ IsUnauthorized(s)
          /\ last' = Event("response", r, s, req[r].url, NoTok, 0)
    /\ UNCHANGED <<accessToken, refreshToken, isRefreshing, redirects, burstCalls>>
    /\ UNCHANGED pageVars

\* A 401 with no refresh in progress and a refresh token stored: the request is
\* marked, the flag is set and the refresh call is sent, all before the await.
Respond401Refresh(r) ==
    /\ SentThroughClient(r)
    /\ ~AlreadyRetried(req[r])
    /\ ~IsAuthEndpoint(req[r].url)
    /\ ~QueueBehindRefresh
    /\ refreshToken # NoTok
    /\ isRefreshing' = FlagAtDispatch
    /\ req' = [req EXCEPT ![r].retry = TRUE, ![r].pc = "refreshing"]
    /\ burstCalls' = burstCalls + 1
    /\ \E s \in Statuses \ {200} :
          /\ IsUnauthorized(s)
          /\ last' = Event("response", r, s, req[r].url, NoTok, 0)
    /\ UNCHANGED <<accessToken, refreshToken, failedQueue, redirects>>
    /\ UNCHANGED pageVars

\* A 401 with no refresh in progress and no refresh token stored: logout, redirect,
\* reject.  This branch is outside the try, so the finally does not run.
Respond401NoRefreshToken(r) ==
    /\ SentThroughClient(r)
    /\ ~AlreadyRetried(req[r])
    /\ ~IsAuthEndpoint(req[r].url)
    /\ ~QueueBehindRefresh
    /\ refreshToken = NoTok
    /\ isRefreshing' = FlagAtDispatch
    /\ logout
    /\ RedirectToLogin
    /\ \E s \in Statuses \ {200} :
          /\ IsUnauthorized(s)
          /\ req' = [req EXCEPT ![r] =
                       Rejected([@ EXCEPT !.retry = TRUE], RequestError(s))]
          /\ last' = Event("response", r, s, req[r].url, NoTok, 0)
    /\ UNCHANGED <<failedQueue, burstCalls>>
    /\ UNCHANGED pageVars

\* The window closes when no refresh call is left outstanding.
CloseBurst(r) == IF RefreshOutstanding \ {r} = {} THEN 0 ELSE burstCalls

\* The refresh call succeeds: the new access token is stored, the waiters are
\* released and replay, the request that started the refresh replays, and the
\* finally clears the flag.
RefreshSucceeds(r) ==
    /\ req[r].pc = "refreshing"
    /\ LET new == FreshToken
           stored == StoredAfterRefresh(accessToken, new)
           released == ProcessQueue(failedQueue, req, NoErr, stored)
       IN /\ accessToken' = stored
          /\ req' = [released EXCEPT ![r] = Replay(req[r], new, stored)]
          /\ last' = [Event("refreshResponse", r, 200, <<>>, new, Len(failedQueue))
                         EXCEPT !.order = RefreshSuccessOrder]
    /\ failedQueue' = DrainedQueue(failedQueue)
    /\ isRefreshing' = FALSE
    /\ burstCalls' = CloseBurst(r)
    /\ UNCHANGED <<refreshToken, redirects>>
    /\ UNCHANGED pageVars

\* The refresh call fails: the waiters are rejected with the refresh error, the
\* tokens are removed, the page is redirected, the request that started the
\* refresh is rejected, and the finally clears the flag.
RefreshFails(r, s) ==
    /\ req[r].pc = "refreshing"
    /\ s # 200
    /\ LET released == ProcessQueue(failedQueue, req, RefreshError(s), accessToken)
       IN req' = [released EXCEPT ![r] = Rejected(req[r], RefreshError(s))]
    /\ failedQueue' = DrainedQueue(failedQueue)
    /\ logout
    /\ RedirectToLogin
    /\ isRefreshing' = FALSE
    /\ burstCalls' = CloseBurst(r)
    /\ last' = Event("refreshResponse", r, s, <<>>, NoTok, Len(failedQueue))
    /\ UNCHANGED pageVars

Next ==
    \/ \E r \in Req : GetCurrentUser(r)
    \/ \E r \in Req : RefreshTokenCall(r)
    \/ \E r \in Req : Login(r)
    \/ \E r \in Req : Register(r)
    \/ \E r \in Req : GeneratePublicInvoice(r)
    \/ \E r \in Req, s \in Statuses : PublicResponds(r, s)
    \/ Logout
    \/ \E r \in Req : RespondOk(r)
    \/ \E r \in Req, s \in Statuses : RespondRejected(r, s)
    \/ \E r \in Req : Respond401Queued(r)
    \/ \E r \in Req : Respond401Refresh(r)
    \/ \E r \in Req : Respond401NoRefreshToken(r)
    \/ \E r \in Req : RefreshSucceeds(r)
    \/ \E r \in Req, s \in Statuses : RefreshFails(r, s)

Spec == Init /\ [][Next]_vars

\* Every HTTP call that was sent receives a response.
Answered(r) ==
    \/ RespondOk(r)
    \/ \E s \in Statuses : RespondRejected(r, s)
    \/ Respond401Queued(r)
    \/ Respond401Refresh(r)
    \/ Respond401NoRefreshToken(r)
    \/ \E s \in Statuses : PublicResponds(r, s)

RefreshAnswered(r) ==
    \/ RefreshSucceeds(r)
    \/ \E s \in Statuses : RefreshFails(r, s)

FairSpec ==
    /\ Spec
    /\ \A r \in Req : WF_vars(Answered(r))
    /\ \A r \in Req : WF_vars(RefreshAnswered(r))

-----------------------------------------------------------------------------
(* AuthProvider.login and logout (src/src/context/AuthContext.tsx).  Here the  *)
(* HTTP client is what AuthProvider sees of it: a call that resolves, or is    *)
(* rejected with an error.                                                     *)

\* The catch of login: an error that has a response with status 403 and a truthy
\* data.can_restore in its body becomes Error('ACCOUNT_DEACTIVATED'); any other
\* error is thrown again as it is.
LoginCatch_AnyForbidden(e) ==
    IF e.response /\ e.status = 403 THEN AccountDeactivated ELSE e

LoginCatch(e) ==
    IF e.response /\ e.status = 403 /\ e.can_restore THEN AccountDeactivated ELSE e

\* AuthProvider's isAuthenticated (line 46): a user is set and the HTTP client
\* has an access token stored.
ContextIsAuthenticated == user # NoUser /\ IsAuthenticated

\* ProtectedRoute (App.tsx): the spinner while isLoading, else the page when
\* isAuthenticated, else <Navigate to="/login">.
ProtectedRoute_NoSpinner(loading, authenticated) ==
    IF authenticated THEN ProtectedPage ELSE NavigateToLogin

ProtectedRoute(loading, authenticated) ==
    IF loading THEN Spinner
    ELSE IF authenticated THEN ProtectedPage ELSE NavigateToLogin

\* A change of AuthProvider's state renders the route again, in the new state.
Render == route' = ProtectedRoute(isLoading', ContextIsAuthenticated')

AuthInit ==
    /\ \E t \in InitialTokens : accessToken = t[1] /\ refreshToken = t[2]
    /\ user = NoUser
    /\ login = IdleLogin
    /\ isRefreshing = FALSE
    /\ failedQueue = <<>>
    /\ req = [q \in Req |-> IdleRequest]
    /\ redirects = 0
    /\ burstCalls = 0
    /\ last = NoEvent
    /\ items = <<EmptyItem>>
    /\ isLoading = TRUE
    /\ initAuth = "start"
    /\ route = Spinner
    /\ settled = <<>>
    /\ completed = <<>>
    /\ query = FirstQuery
    /\ timer = TRUE
    /\ loads = <<>>
    /\ shown = 0

\* login is called: apiService.login is awaited.
LoginStart ==
    /\ login.pc \in {"idle", "done", "failed"}
    /\ login' = [IdleLogin EXCEPT !.pc = "signIn"]
    /\ UNCHANGED <<accessToken, refreshToken, user, isLoading, initAuth, route>>
    /\ UNCHANGED <<clientVars, formVars, orderVars, listVars>>

\* The sign-in call resolves: both tokens are stored, getCurrentUser is awaited.
LoginSignedIn ==
    /\ login.pc = "signIn"
    /\ accessToken' = FreshToken
    /\ refreshToken' = FreshToken
    /\ login' = [login EXCEPT !.pc = "me", !.issued = FreshToken]
    /\ UNCHANGED <<user, isLoading, initAuth, route>>
    /\ UNCHANGED <<clientVars, formVars, orderVars, listVars>>

\* getCurrentUser resolves: the user is set and login returns.
LoginGotUser ==
    /\ login.pc = "me"
    /\ user' = SomeUser
    /\ login' = [login EXCEPT !.pc = "done"]
    /\ UNCHANGED <<accessToken, refreshToken, isLoading, initAuth>>
    /\ UNCHANGED <<clientVars, formVars, orderVars, listVars>>
    /\ Render

\* The awaited call is rejected with e: the catch decides what login throws.
LoginFails(e) ==
    /\ login.pc \in {"signIn", "me"}
    /\ login' = [pc |-> "failed", at |-> login.pc, error |-> e, thrown |-> LoginCatch(e),
                 issued |-> login.issued]
    /\ UNCHANGED <<accessToken, refreshToken, user, isLoading, initAuth, route>>
    /\ UNCHANGED <<clientVars, formVars, orderVars, listVars>>

\* AuthProvider.logout
AuthLogout ==
    /\ logout
    /\ user' = NoUser
    /\ UNCHANGED <<login, isLoading, initAuth>>
    /\ UNCHANGED <<clientVars, formVars, orderVars, listVars>>
    /\ Render

\* initializeAuth, run once when AuthProvider mounts: without a stored access
\* token the loading ends at once, with one getCurrentUser is awaited.
InitializeAuth ==
    /\ initAuth = "start"
    /\ IF IsAuthenticated
       THEN initAuth' = "me" /\ UNCHANGED isLoading
       ELSE initAuth' = "done" /\ isLoading' = FALSE
    /\ UNCHANGED <<accessToken, refreshToken, user, login>>
    /\ UNCHANGED <<clientVars, formVars, orderVars, listVars>>
    /\ Render

\* initializeAuth's getCurrentUser resolves: setUser, then setIsLoading(false).
InitGotUser ==
    /\ initAuth = "me"
    /\ user' = SomeUser
    /\ isLoading' = FALSE
    /\ initAuth' = "done"
    /\ UNCHANGED <<accessToken, refreshToken, login>>
    /\ UNCHANGED <<clientVars, formVars, orderVars, listVars>>
    /\ Render

\* initializeAuth's getCurrentUser is rejected: apiService.logout in the catch,
\* then setIsLoading(false).
InitFails ==
    /\ initAuth = "me"
    /\ logout
    /\ isLoading' = FALSE
    /\ initAuth' = "done"
    /\ UNCHANGED <<user, login>>
    /\ UNCHANGED <<clientVars, formVars, orderVars, listVars>>
    /\ Render

\* The document is loaded anew (a reload, or an assignment to
\* window.location.href): AuthProvider mounts with its initial state and the
\* pending continuations of the old document are gone; localStorage stays.
PageLoad ==
    /\ user' = NoUser
    /\ login' = IdleLogin
    /\ isLoading' = TRUE
    /\ initAuth' = "start"

Reload ==
    /\ PageLoad
    /\ UNCHANGED <<accessToken, refreshToken>>
    /\ UNCHANGED <<clientVars, formVars, orderVars, listVars>>
    /\ Render

\* The HTTP client's refresh fails while the application is up: it removes both
\* tokens and assigns window.location.href = '/login' (api.ts lines 106-111).
ForcedLogout ==
    /\ initAuth # "start"
    /\ IsAuthenticated
    /\ logout
    /\ PageLoad
    /\ UNCHANGED <<clientVars, formVars, orderVars, listVars>>
    /\ Render

AuthNext ==
    \/ LoginStart
    \/ LoginSignedIn
    \/ LoginGotUser
    \/ \E e \in AxiosErrors : LoginFails(e)
    \/ AuthLogout
    \/ InitializeAuth
    \/ InitGotUser
    \/ InitFails
    \/ Reload
    \/ ForcedLogout

AuthSpec == AuthInit /\ [][AuthNext]_vars

-----------------------------------------------------------------------------
(* InvoiceForm's items (src/components/InvoiceForm.tsx) *)

\* Lines 108-111: the total of the item whose quantity or unit_price was set.
ItemTotal_Stale(old, updated) == old.quantity * old.unit_price

ItemTotal(old, updated) == updated.quantity * updated.unit_price

\* InvoiceForm line 144: data.items.reduce((sum, item) => sum + item.total, 0)
RECURSIVE FormSubtotal(_)
FormSubtotal(its) ==
    IF its = <<>> THEN 0
    ELSE FormSubtotal(SubSeq(its, 1, Len(its) - 1)) + its[Len(its)].total

\* InvoicePreview lines 14-18:
\* data.items.reduce((sum, item) => sum + item.quantity * item.unit_price, 0)
RECURSIVE PreviewSubtotal(_)
PreviewSubtotal(its) ==
    IF its = <<>> THEN 0
    ELSE PreviewSubtotal(SubSeq(its, 1, Len(its) - 1))
            + its[Len(its)].quantity * its[Len(its)].unit_price

FormInit ==
    /\ items = <<EmptyItem>>
    /\ \E t \in InitialTokens : accessToken = t[1] /\ refreshToken = t[2]
    /\ user = NoUser
    /\ login = IdleLogin
    /\ isRefreshing = FALSE
    /\ failedQueue = <<>>
    /\ req = [q \in Req |-> IdleRequest]
    /\ redirects = 0
    /\ burstCalls = 0
    /\ last = NoEvent
    /\ isLoading = TRUE
    /\ initAuth = "start"
    /\ route = Spinner
    /\ settled = <<>>
    /\ completed = <<>>
    /\ query = FirstQuery
    /\ timer = TRUE
    /\ loads = <<>>
    /\ shown = 0

FormUnchanged ==
    UNCHANGED <<accessToken, refreshToken, clientVars, authVars, orderVars, listVars>>

\* CreateInvoicePage.loadInvoiceForEdit: the items of the saved invoice replace
\* the fresh form's.
LoadInvoiceForEdit(item) ==
    /\ items = <<EmptyItem>>
    /\ items' = <<item>>
    /\ FormUnchanged

SetField(item, field, value) ==
    CASE field = "description" -> [item EXCEPT !.description = value]
      [] field = "quantity" -> [item EXCEPT !.quantity = value]
      [] field = "unit_price" -> [item EXCEPT !.unit_price = value]

handleItemChange(index, field, value) ==
    /\ index \in DOMAIN items
    /\ LET updated == SetField(items[index], field, value)
           new == IF field = "quantity" \/ field = "unit_price"
                  THEN [updated EXCEPT !.total = ItemTotal(items[index], updated),
                                       !.edited = TRUE]
                  ELSE updated
       IN items' = [items EXCEPT ![index] = new]
    /\ FormUnchanged

addItem ==
    /\ Len(items) < MaxItems
    /\ items' = Append(items, EmptyItem)
    /\ FormUnchanged

removeItem(index) ==
    /\ index \in DOMAIN items
    /\ Len(items) > 1
    /\ items' = [i \in 1..(Len(items) - 1) |->
                    IF i < index THEN items[i] ELSE items[i + 1]]
    /\ FormUnchanged

FormNext ==
    \/ \E item \in LoadedItems : LoadInvoiceForEdit(item)
    \/ \E i \in 1..MaxItems, d \in Descriptions : handleItemChange(i, "description", d)
    \/ \E i \in 1..MaxItems, q \in Quantities : handleItemChange(i, "quantity", q)
    \/ \E i \in 1..MaxItems, p \in UnitPrices : handleItemChange(i, "unit_price", p)
    \/ addItem
    \/ \E i \in 1..MaxItems : removeItem(i)

FormSpec == FormInit /\ [][FormNext]_vars

-----------------------------------------------------------------------------
(* The waiter queue alone (api.ts lines 59-66, 72, 104, 118-128): which       *)
(* waiter is settled when, with as many waiters behind one refresh as          *)
(* MaxWaiters allows.  A waiter stands for the request that received the 401. *)

\* Line 62: failedQueue.push
Push(queue, w) == Append(queue, w)

\* Line 119: forEach visits the queue from its first element to its last.
ForEachOrder_Reversed(queue) == [i \in DOMAIN queue |-> queue[Len(queue) + 1 - i]]

ForEachOrder(queue) == queue

\* Lines 120-124: reject(error) if the refresh failed, else resolve().
WaiterOutcome(ok) == IF ok THEN "resolved" ELSE "rejected"

Position(seq, w) == CHOOSE i \in DOMAIN seq : seq[i].w = w

OrderInit ==
    /\ accessToken = 1
    /\ refreshToken = 1
    /\ isRefreshing = FALSE
    /\ failedQueue = <<>>
    /\ settled = <<>>
    /\ completed = <<>>
    /\ req = [q \in Req |-> IdleRequest]
    /\ redirects = 0
    /\ burstCalls = 0
    /\ last = NoEvent
    /\ user = NoUser
    /\ login = IdleLogin
    /\ items = <<EmptyItem>>
    /\ isLoading = TRUE
    /\ initAuth = "start"
    /\ route = Spinner
    /\ query = FirstQuery
    /\ timer = TRUE
    /\ loads = <<>>
    /\ shown = 0

OrderUnchanged ==
    UNCHANGED <<accessToken, refreshToken, req, redirects, burstCalls, last,
                authVars, formVars, listVars>>

\* Line 72: a request's 401 finds no refresh in progress and starts one.
OrderRefreshStarts ==
    /\ ~isRefreshing
    /\ isRefreshing' = TRUE
    /\ settled' = <<>>
    /\ completed' = <<>>
    /\ UNCHANGED failedQueue
    /\ OrderUnchanged

\* Lines 59-63: the 401 of request w finds the refresh in progress.
OrderEnqueue(w) ==
    /\ isRefreshing
    /\ \A i \in DOMAIN failedQueue : failedQueue[i] # w
    /\ failedQueue' = Push(failedQueue, w)
    /\ UNCHANGED <<isRefreshing, settled, completed>>
    /\ OrderUnchanged

\* Lines 93 or 98, and 104: the refresh call settles, processQueue settles every
\* waiter in forEach's order and empties the queue, finally clears the flag.
OrderRefreshSettles(ok) ==
    /\ isRefreshing
    /\ settled' = [i \in DOMAIN failedQueue |->
                      [w |-> ForEachOrder(failedQueue)[i], outcome |-> WaiterOutcome(ok)]]
    /\ failedQueue' = DrainedQueue(failedQueue)
    /\ isRefreshing' = FALSE
    /\ UNCHANGED completed
    /\ OrderUnchanged

\* Lines 63-65: the replay of a resolved waiter is answered; the network
\* answers the replays in any order.
OrderReplayAnswered(w) ==
    /\ \E i \in DOMAIN settled : settled[i].w = w /\ settled[i].outcome = "resolved"
    /\ \A i \in DOMAIN completed : completed[i] # w
    /\ completed' = Append(completed, w)
    /\ UNCHANGED <<isRefreshing, failedQueue, settled>>
    /\ OrderUnchanged

OrderNext ==
    \/ OrderRefreshStarts
    \/ \E w \in Waiters : OrderEnqueue(w)
    \/ \E ok \in BOOLEAN : OrderRefreshSettles(ok)
    \/ \E w \in Waiters : OrderReplayAnswered(w)

OrderSpec == OrderInit /\ [][OrderNext]_vars

-----------------------------------------------------------------------------
(* A list page (ClientsPage.tsx lines 29-90; InvoicesPage.tsx lines 28-88 has *)
(* the same structure, with the status filter beside the search term): its   *)
(* parameters, the debounce timeout, the requests it has sent and the one    *)
(* whose result it displays.  The backend echoes the page size it was asked   *)
(* for, so setPageSize changes nothing.                                       *)

ListInit ==
    /\ query = FirstQuery
    /\ timer = TRUE
    /\ loads = <<>>
    /\ shown = 0
    /\ \E t \in InitialTokens : accessToken = t[1] /\ refreshToken = t[2]
    /\ isRefreshing = FALSE
    /\ failedQueue = <<>>
    /\ req = [q \in Req |-> IdleRequest]
    /\ redirects = 0
    /\ burstCalls = 0
    /\ last = NoEvent
    /\ user = NoUser
    /\ login = IdleLogin
    /\ items = <<EmptyItem>>
    /\ isLoading = TRUE
    /\ initAuth = "start"
    /\ route = Spinner
    /\ settled = <<>>
    /\ completed = <<>>

ListUnchanged ==
    UNCHANGED <<accessToken, refreshToken, clientVars, authVars, formVars, orderVars>>

\* handleSearchChange sets the term and page 1, handlePageChange sets the page:
\* loadClients is a new callback, so the effect's cleanup clears the pending
\* timeout and the effect sets a new one.  Requests already sent stay in flight.
handleSearchChange(term) ==
    /\ term # query.term
    /\ query' = [term |-> term, page |-> 1]
    /\ timer' = TRUE
    /\ UNCHANGED <<loads, shown>>
    /\ ListUnchanged

handlePageChange(page) ==
    /\ page # query.page
    /\ query' = [query EXCEPT !.page = page]
    /\ timer' = TRUE
    /\ UNCHANGED <<loads, shown>>
    /\ ListUnchanged

\* The timeout fires: loadClients sends the request for the current parameters.
loadClients ==
    /\ timer
    /\ Len(loads) < MaxLoads
    /\ timer' = FALSE
    /\ loads' = Append(loads, [query |-> query, pc |-> "sent"])
    /\ UNCHANGED <<query, shown>>
    /\ ListUnchanged

\* The request loads[i] is answered: its continuation sets the list and the
\* pagination from the result, or (catch) shows a toast and sets nothing.
ListResponds(i, ok) ==
    /\ i \in DOMAIN loads
    /\ loads[i].pc = "sent"
    /\ loads' = [loads EXCEPT ![i].pc = IF ok THEN "ok" ELSE "failed"]
    /\ shown' = IF ok THEN i ELSE shown
    /\ UNCHANGED <<query, timer>>
    /\ ListUnchanged

ListNext ==
    \/ \E term \in SearchTerms : handleSearchChange(term)
    \/ \E page \in ListPages : handlePageChange(page)
    \/ loadClients
    \/ \E i \in 1..MaxLoads, ok \in BOOLEAN : ListResponds(i, ok)

ListSpec == ListInit /\ [][ListNext]_vars

-----------------------------------------------------------------------------
(* Properties *)

AuthUrls == {SignInUrl, SignUpUrl, RefreshTokenUrl}

\* The task that has just run handled a 401 response to request r.
Handled401(r) ==
    /\ req[r].pc = "sent"
    /\ last'.op = "response" /\ last'.r = r /\ last'.status = 401

\* The task that has just run handled the answer to the refresh call of request r.
RefreshSettled(r) ==
    /\ req[r].pc = "refreshing"
    /\ last'.op = "refreshResponse" /\ last'.r = r

\* C1: while a refresh call is outstanding, exactly one refresh call has been
\* sent since the first 401 of the burst, however many 401s were handled since.
C1_OneRefreshPerBurst == RefreshOutstanding # {} => burstCalls = 1

C1_Witness ==
    /\ RefreshOutstanding # {}
    /\ Len(failedQueue) >= 1
    /\ burstCalls = 1

\* C2: at most one refresh call is outstanding, and isRefreshing is true while
\* it is; a 401 handled while isRefreshing is true sends no refresh call and
\* the request is enqueued (or rejected, when it is not eligible); a handler
\* that sends the refresh call found isRefreshing false and leaves it true in
\* the same step.
C2_SingleFlight ==
    [][ /\ Cardinality(RefreshOutstanding') <= 1
        /\ RefreshOutstanding' # {} => isRefreshing'
        /\ isRefreshing => RefreshOutstanding' \subseteq RefreshOutstanding
        /\ \A r \in Req :
              /\ (r \in RefreshOutstanding' \ RefreshOutstanding)
                    => (~isRefreshing /\ isRefreshing')
              /\ (isRefreshing /\ Handled401(r))
                    => \/ /\ req'[r].pc = "queued"
                          /\ failedQueue' = Append(failedQueue, r)
                       \/ /\ req'[r].pc = "rejected"
                          /\ failedQueue' = failedQueue
      ]_vars

C2_Witness ==
    /\ last.op = "response" /\ last.status = 401
    /\ req[last.r].pc = "queued"
    /\ isRefreshing
    /\ Cardinality(RefreshOutstanding) = 1

\* C3: when the refresh call settles, every waiter of the queue gets its
\* outcome: replayed after a success, rejected with the refresh error after a
\* failure; and the queue is empty.
C3_WaitersShareOutcome ==
    [][ \A r \in Req : RefreshSettled(r) =>
          /\ failedQueue' = <<>>
          /\ \A w \in Req : InQueue(w) =>
                IF last'.status = 200
                THEN /\ req'[w].pc = "sent"
                     /\ req'[w].replays = req[w].replays + 1
                     /\ req'[w].url = req[w].url
                     /\ req'[w].error = NoErr
                     /\ req'[r].pc = "sent"
                ELSE /\ req'[w].pc = "rejected"
                     /\ req'[w].error = RefreshError(last'.status)
                     /\ req'[w].error = req'[r].error
      ]_vars

C3_Witness ==
    /\ last.op = "refreshResponse" /\ last.status # 200 /\ last.n >= 1
    /\ \E w \in Req \ {last.r} :
          req[w].pc = "rejected" /\ req[w].error = RefreshError(last.status)

\* C4: after a successful refresh, the replay of every waiter carries the
\* access token that refresh returned, and not the token of the request that
\* received the 401.
C4_WaitersReplayWithNewToken ==
    [][ \A r \in Req : (RefreshSettled(r) /\ last'.status = 200) =>
          \A w \in Req : InQueue(w) =>
              /\ req'[w].pc = "sent"
              /\ req'[w].auth = last'.tok
              /\ req'[w].auth # req[w].auth
      ]_vars

C4_Witness ==
    /\ last.op = "refreshResponse" /\ last.status = 200 /\ last.n >= 1
    /\ accessToken = last.tok
    /\ \E w \in Req \ {last.r} :
          req[w].pc = "sent" /\ req[w].replays = 1 /\ req[w].auth = last.tok

\* C5: when the refresh call fails, or a 401 is handled with no refresh call
\* outstanding and no refresh token stored, the request and all waiters are
\* rejected, both tokens are removed and the page is redirected once.
C5_FailureRejectsAll ==
    [][ \A r \in Req :
          ( \/ RefreshSettled(r) /\ last'.status # 200
            \/ /\ Handled401(r)
               /\ req[r].url \notin AuthUrls
               /\ ~req[r].retry
               /\ RefreshOutstanding = {}
               /\ refreshToken = NoTok )
          => /\ req'[r].pc = "rejected"
             /\ \A w \in Req : InQueue(w) => req'[w].pc = "rejected"
             /\ accessToken' = NoTok
             /\ refreshToken' = NoTok
             /\ redirects' = redirects + 1
      ]_vars

\* C6: a 401 on the sign-in, sign-up or refresh-token endpoint is handed to the
\* caller at once: no refresh call, no waiter, no replay, nothing else changed,
\* whatever isRefreshing is.
C6_AuthEndpointsNeverRefresh ==
    [][ \A r \in Req : (Handled401(r) /\ req[r].url \in AuthUrls) =>
          /\ req'[r].pc = "rejected"
          /\ req'[r].error = RequestError(401)
          /\ \A q \in Req \ {r} : req'[q] = req[q]
          /\ UNCHANGED <<accessToken, refreshToken, isRefreshing, failedQueue,
                         redirects, burstCalls>>
      ]_vars

C6_Witness ==
    /\ last.op = "response" /\ last.status = 401
    /\ last.url = RefreshTokenUrl
    /\ req[last.r].pc = "rejected"
    /\ isRefreshing
    /\ RefreshOutstanding # {}

\* C7: logout removes both tokens in one step and sends nothing, and
\* isAuthenticated is false right after it, from any state.
C7_LogoutClearsTokens ==
    [][ last'.op = "logout" =>
          /\ accessToken' = NoTok
          /\ refreshToken' = NoTok
          /\ ~IsAuthenticated'
          /\ UNCHANGED <<req, failedQueue, isRefreshing, redirects, burstCalls>>
      ]_vars

C7_Witness ==
    /\ last.op = "logout"
    /\ RefreshOutstanding # {}
    /\ failedQueue # <<>>
    /\ ~IsAuthenticated
    /\ refreshToken = NoTok

\* C8: every request that received a 401 is replayed at most once.
C8_ReplayedAtMostOnce == \A r \in Req : req[r].replays <= 1

\* C9: every request enqueued as a waiter is eventually released or rejected.
C9_WaitersSettle ==
    \A r \in Req : (req[r].pc = "queued") ~> (req[r].pc # "queued")

\* C10: with an access token and a refresh token stored and no other request
\* in flight, a 401 answer to getCurrentUser sends one refresh call; when that
\* call succeeds the request is replayed with the new access token; and when
\* the replay is answered the caller has its result.
C10_GetCurrentUserRecovers ==
    [][ \A r \in Req :
          /\ ( /\ Handled401(r)
               /\ req[r].url = MeUrl
               /\ req[r].replays = 0
               /\ accessToken # NoTok
               /\ refreshToken # NoTok
               /\ \A q \in Req \ {r} : req[q].pc \in {"idle", "resolved", "rejected"} )
             => /\ req'[r].pc = "refreshing"
                /\ burstCalls' = 1
          /\ ( /\ RefreshSettled(r)
               /\ last'.status = 200
               /\ req[r].url = MeUrl )
             => /\ req'[r].pc = "sent"
                /\ req'[r].auth = last'.tok
                /\ req'[r].replays = 1
          /\ ( /\ req[r].pc = "sent"
               /\ last'.op = "response" /\ last'.r = r /\ last'.status = 200
               /\ req[r].url = MeUrl
               /\ req[r].replays = 1 )
             => req'[r].pc = "resolved"
      ]_vars

\* C11: with both tokens stored and no refresh call outstanding, a 401 on a
\* protected endpoint sends exactly one refresh call; when that call fails, the
\* request and every waiter are rejected in that step, so that no refresh call
\* is outstanding or sent for any of them afterwards, both tokens are removed
\* and the page is redirected.
C11_FailedRefreshNotRetried ==
    [][ \A r \in Req :
          /\ ( /\ Handled401(r)
               /\ req[r].url \notin AuthUrls
               /\ ~req[r].retry
               /\ accessToken # NoTok
               /\ refreshToken # NoTok
               /\ RefreshOutstanding = {} )
             => /\ req'[r].pc = "refreshing"
                /\ burstCalls' = 1
          /\ ( RefreshSettled(r) /\ last'.status # 200 )
             => /\ burstCalls = 1
                /\ req'[r].pc = "rejected"
                /\ req'[r].error = RefreshError(last'.status)
                /\ \A w \in Req : InQueue(w) => req'[w].pc = "rejected"
                /\ RefreshOutstanding' = {}
                /\ failedQueue' = <<>>
                /\ accessToken' = NoTok
                /\ refreshToken' = NoTok
                /\ redirects' = redirects + 1
      ]_vars

\* C12: a failure that is no 401 (another status, or no response at all) is
\* handed to the caller as the same error: no refresh call, no waiter, no
\* replay, and the tokens, isRefreshing, the queue and the page are unchanged.
C12_OtherFailuresPassThrough ==
    [][ \A r \in Req :
          ( /\ req[r].pc = "sent"
            /\ last'.op = "response" /\ last'.r = r
            /\ last'.status \notin {200, 401} )
          => /\ req'[r].pc = "rejected"
             /\ req'[r].error = RequestError(last'.status)
             /\ \A q \in Req \ {r} : req'[q] = req[q]
             /\ RefreshOutstanding' = RefreshOutstanding
             /\ UNCHANGED <<accessToken, refreshToken, isRefreshing, failedQueue,
                            redirects, burstCalls>>
      ]_vars

C12_Witness ==
    /\ last.op = "response" /\ last.status = NoResponse
    /\ last.url = MeUrl
    /\ req[last.r].pc = "rejected" /\ req[last.r].error = RequestError(NoResponse)
    /\ accessToken # NoTok /\ refreshToken # NoTok
    /\ ~isRefreshing
    /\ redirects = 0

\* The task that has just run dispatched request r through this.api: a first
\* attempt, the next call of a caller's chain, or a replay.
DispatchedThroughClient(r) ==
    /\ req'[r].pc = "sent"
    /\ req'[r].chain # "public"
    /\ \/ req[r].pc # "sent"
       \/ req'[r].url # req[r].url

\* C13: a request dispatched through the client carries the access token that
\* is in storage when it is dispatched, if there is one; a first attempt
\* dispatched with no token in storage carries no Authorization header.
C13_BearerIsStoredToken ==
    [][ \A r \in Req : DispatchedThroughClient(r) =>
          /\ accessToken' # NoTok => req'[r].auth = accessToken'
          /\ (accessToken' = NoTok /\ req'[r].replays = 0) => req'[r].auth = NoTok
      ]_vars

C13_Witness ==
    /\ last.op = "refreshResponse" /\ last.status = 200
    /\ accessToken # NoTok
    /\ req[last.r].pc = "sent" /\ req[last.r].replays = 1
    /\ req[last.r].auth = accessToken
    /\ \E q \in Req \ {last.r} :
          /\ req[q].pc = "sent" /\ req[q].chain # "public"
          /\ req[q].replays = 0 /\ req[q].auth = NoTok

\* C14: AuthProvider.login throws Error('ACCOUNT_DEACTIVATED') exactly when the
\* error it caught has a response with status 403 whose body carries
\* can_restore; every other error is thrown again unchanged.
C14_DeactivatedOnlyOn403WithFlag ==
    login.pc = "failed" =>
        /\ login.thrown = AccountDeactivated
              <=> ( /\ login.error.response
                    /\ login.error.status = 403
                    /\ login.error.can_restore )
        /\ login.thrown # AccountDeactivated => login.thrown = login.error

C14_Witness ==
    /\ login.pc = "failed"
    /\ login.error = ResponseError(403, TRUE)
    /\ login.thrown = AccountDeactivated

\* C15 as stated: a 401 on the sign-in or refresh-token endpoint itself, or a
\* failed refresh, is handed to the caller, removes both tokens and redirects
\* to the login page.
C15_AuthRejectionForcesLogout ==
    [][ \A r \in Req :
          ( \/ Handled401(r) /\ req[r].url \in {SignInUrl, RefreshTokenUrl}
            \/ RefreshSettled(r) /\ last'.status # 200 )
          => /\ req'[r].pc = "rejected"
             /\ accessToken' = NoTok
             /\ refreshToken' = NoTok
             /\ redirects' = redirects + 1
      ]_vars

\* C15, amended: a failed refresh call is handed to the caller, removes both
\* tokens and redirects to the login page; a 401 on the sign-in or
\* refresh-token endpoint itself is handed to the caller and neither removes a
\* token nor redirects.
C15_OnlyFailedRefreshForcesLogout ==
    [][ \A r \in Req :
          /\ ( RefreshSettled(r) /\ last'.status # 200 )
             => /\ req'[r].pc = "rejected"
                /\ req'[r].error = RefreshError(last'.status)
                /\ accessToken' = NoTok
                /\ refreshToken' = NoTok
                /\ redirects' = redirects + 1
          /\ ( Handled401(r) /\ req[r].url \in {SignInUrl, RefreshTokenUrl} )
             => /\ req'[r].pc = "rejected"
                /\ req'[r].error = RequestError(401)
                /\ UNCHANGED <<accessToken, refreshToken, redirects>>
      ]_vars

C15_Witness ==
    /\ last.op = "refreshResponse" /\ last.status = 401
    /\ req[last.r].pc = "rejected" /\ req[last.r].error = RefreshError(401)
    /\ accessToken = NoTok /\ refreshToken = NoTok
    /\ redirects = 1

\* C16: once handleItemChange has set an item's quantity or unit_price, in any
\* order and any number of times, the item's total is its current quantity
\* times its current unit_price.
C16_ItemTotalIsProduct ==
    \A i \in DOMAIN items :
        items[i].edited => items[i].total = items[i].quantity * items[i].unit_price

C16_Witness ==
    \E i \in DOMAIN items :
        /\ items[i].edited
        /\ items[i].quantity = 3 /\ items[i].unit_price = 1500
        /\ items[i].total = 4500

\* C17: generatePublicInvoice sends its request without the stored access
\* token, stored or not; a failure of it, a 401 included, is handed to the
\* caller and sends no refresh call, changes neither token and does not
\* redirect.
C17_PublicInvoiceBypassesAuth ==
    [][ \A r \in Req :
          /\ ( /\ req[r].pc = "idle"
               /\ last'.op = "generatePublicInvoice" /\ last'.r = r )
             => /\ req'[r].pc = "sent"
                /\ req'[r].auth = NoTok
                /\ UNCHANGED <<accessToken, refreshToken, isRefreshing, failedQueue,
                               redirects, burstCalls>>
          /\ ( /\ req[r].pc = "sent"
               /\ last'.op = "publicResponse" /\ last'.r = r
               /\ last'.status # 200 )
             => /\ req'[r].pc = "rejected"
                /\ req'[r].error = RequestError(last'.status)
                /\ \A q \in Req \ {r} : req'[q] = req[q]
                /\ RefreshOutstanding' = RefreshOutstanding
                /\ UNCHANGED <<accessToken, refreshToken, isRefreshing, failedQueue,
                               redirects, burstCalls>>
      ]_vars

C17_Witness ==
    /\ last.op = "publicResponse" /\ last.status = 401
    /\ last.url = GeneratePdfUrl
    /\ req[last.r].pc = "rejected" /\ req[last.r].error = RequestError(401)
    /\ accessToken # NoTok /\ refreshToken # NoTok
    /\ ~isRefreshing /\ RefreshOutstanding = {}
    /\ redirects = 0

\* C18: between handler steps, isRefreshing is true exactly while a refresh
\* call is outstanding.
C18_FlagIffRefreshOutstanding == isRefreshing <=> RefreshOutstanding # {}

Before(order, a, b) ==
    \E i, j \in DOMAIN order : i < j /\ order[i] = a /\ order[j] = b

C27_FailedLoginLeavesNoToken ==
    (login.pc = "failed" /\ login.issued # NoTok) =>
        accessToken # login.issued /\ refreshToken # login.issued

C29_FormAndPreviewSubtotalsAgree ==
    FormSubtotal(items) = PreviewSubtotal(items)

\* C21: a request that joins the queue joins it behind the waiters already
\* there, and when the refresh settles the waiters are settled in the order
\* they were enqueued: of two waiters of the same refresh, the one enqueued
\* first is resolved or rejected first.
C21_WaitersReleasedInEnqueueOrder ==
    [][ /\ Len(failedQueue') > Len(failedQueue) =>
              SubSeq(failedQueue', 1, Len(failedQueue)) = failedQueue
        /\ (failedQueue # <<>> /\ failedQueue' = <<>>) =>
              /\ Len(settled') = Len(failedQueue)
              /\ \A i, j \in DOMAIN failedQueue :
                    i < j => Position(settled', failedQueue[i])
                                < Position(settled', failedQueue[j]) ]_vars

\* Three waiters were enqueued as 2, 3, 1 and resolved in that order, and the
\* replay of the second was answered before the replay of the first.
C21_Witness ==
    /\ Len(settled) = 3
    /\ <<settled[1].w, settled[2].w, settled[3].w>> = <<2, 3, 1>>
    /\ \A i \in DOMAIN settled : settled[i].outcome = "resolved"
    /\ completed = <<3, 2>>

C23_WaitersOnlyWhileRefreshing ==
    failedQueue # <<>> => isRefreshing

\* A request waits in the queue behind the refresh another request started.
C23_Witness ==
    \E q \in Req :
        /\ failedQueue = <<q>>
        /\ req[q].pc = "queued"
        /\ RefreshOutstanding # {}

\* C24: once logout has removed the access token, isAuthenticated() is false
\* until a sign-in succeeds: the only step that stores an access token where
\* none was stored is the successful answer to a sign-in request.
C24_LoggedOutUntilSignIn ==
    [][ (~IsAuthenticated /\ IsAuthenticated') =>
            /\ last'.op = "response"
            /\ last'.status = 200
            /\ last'.url = SignInUrl ]_vars

\* A step that changes a stored token.
TokenWritten == accessToken' # accessToken \/ refreshToken' # refreshToken

BothCleared == accessToken' = NoTok /\ refreshToken' = NoTok

\* The writes of the HTTP client: the refresh path (the new access token on
\* success, both tokens removed when the refresh fails or cannot be made) and
\* logout.
WrittenByClient ==
    \/ /\ last'.op = "refreshResponse"
       /\ last'.status = 200
       /\ accessToken' = last'.tok
       /\ refreshToken' = refreshToken
    \/ /\ last'.op = "refreshResponse"
       /\ last'.status # 200
       /\ BothCleared
    \/ /\ last'.op = "response"
       /\ IsUnauthorized(last'.status)
       /\ refreshToken = NoTok
       /\ BothCleared
    \/ /\ last'.op = "logout"
       /\ BothCleared

\* The write of AuthProvider.login: both tokens of a successful sign-in.
WrittenByLogin ==
    /\ last'.op = "response"
    /\ last'.status = 200
    /\ last'.url = SignInUrl
    /\ accessToken' # NoTok
    /\ refreshToken' = accessToken'

\* C22: the stored tokens are written only by the HTTP client, inside its
\* refresh path and at logout; no other operation changes them.
C22_TokensWrittenOnlyByClient ==
    [][TokenWritten => WrittenByClient]_vars

\* C22, amended: the stored tokens are written only by the HTTP client's
\* refresh path and logout, and by AuthProvider.login when its sign-in call
\* has succeeded.
C22_TokensWrittenByClientOrLogin ==
    [][TokenWritten => (WrittenByClient \/ WrittenByLogin)]_vars

\* login's sign-in call was answered 200 and login has stored its tokens and
\* sent getCurrentUser with the new access token.
C22_Witness ==
    /\ last.op = "response"
    /\ last.status = 200
    /\ last.url = SignInUrl
    /\ req[last.r].url = MeUrl
    /\ req[last.r].auth = accessToken
    /\ accessToken # NoTok
    /\ refreshToken = accessToken

\* The task that runs handles the response to the replay of request r, the
\* request whose 401 started a refresh that has succeeded.
ReplayAnswered(r) ==
    /\ req[r].pc = "sent"
    /\ req[r].retry
    /\ last'.op = "response"
    /\ last'.r = r

\* C25: when the refresh succeeded and the replay of the request that started
\* it then fails, with whatever status, the failure goes to that request's
\* caller only: the tokens stay, there is no redirect, and the waiters the
\* refresh released (and every other request) are left as they are.
C25_ReplayFailureToCallerOnly ==
    [][\A r \in Req :
          (ReplayAnswered(r) /\ last'.status # 200) =>
              /\ req'[r].pc = "rejected"
              /\ req'[r].error = RequestError(last'.status)
              /\ UNCHANGED <<accessToken, refreshToken, redirects>>
              /\ \A q \in Req \ {r} : req'[q] = req[q] ]_vars

\* The replay failed with 500 while the waiter the refresh released is still
\* replaying with the new token, which is still stored.
C25_Witness ==
    \E q \in Req :
        /\ last.op = "response"
        /\ last.status = 500
        /\ last.r # q
        /\ req[last.r].pc = "rejected"
        /\ req[last.r].error = RequestError(500)
        /\ req[q].pc = "sent"
        /\ req[q].replays = 1
        /\ ~req[q].retry
        /\ req[q].auth = accessToken
        /\ accessToken # NoTok
        /\ redirects = 0

\* C26: a request that carries the _retry mark and receives 401 again is
\* rejected: no refresh call is sent for it, it does not join the queue, and
\* the tokens and the page stay, whether or not a refresh is in progress.
C26_RetriedRequestNotRefreshedAgain ==
    [][\A r \in Req :
          (ReplayAnswered(r) /\ IsUnauthorized(last'.status)) =>
              /\ req'[r].pc = "rejected"
              /\ RefreshOutstanding' = RefreshOutstanding
              /\ UNCHANGED <<burstCalls, isRefreshing, failedQueue>>
              /\ UNCHANGED <<accessToken, refreshToken, redirects>> ]_vars

\* The replay was answered 401 and rejected while the refresh that another
\* request had started was in progress.
C26_Witness ==
    /\ last.op = "response"
    /\ last.status = 401
    /\ last.url = MeUrl
    /\ req[last.r].pc = "rejected"
    /\ req[last.r].error = RequestError(401)
    /\ isRefreshing
    /\ RefreshOutstanding # {}
    /\ redirects = 0

=============================================================================
